---------------------------- MODULE Spec2Model ----------------------------
(***************************************************************************)
(* State-machine model of new_blog_post.py: one run of the pipeline        *)
(*   fetch_top_articles -> filter_relevant_articles (a thread pool mapping *)
(*   process_article, then one relevance call) -> create_blog_post ->      *)
(*   push_to_github.                                                       *)
(*                                                                         *)
(* Text is a sequence of tokens (strings).  "\n" and " " are the           *)
(* whitespace tokens, "## " is the markdown heading marker.  The string    *)
(* operations the script uses (strip, split, join, f-string concatenation) *)
(* are computed on token sequences.  What the outside world answers (the   *)
(* news API, a web page, the language model, the file system, git) is an   *)
(* input of the action that asks, drawn from a small set.  An exception is *)
(* named by its class; a function's outcome is a record whose field        *)
(* `raised` is "" when it returned and the exception's class when the      *)
(* exception left the function.                                            *)
(***************************************************************************)
EXTENDS Naturals, Sequences, FiniteSets, TLC

\* Bounds of the model.
MaxArticles == 2
MaxLines == 2

\* Program constants.
PageSize == 20
TopN == 8

NL == "\n"
SP == " "
H2 == "## "
Whitespace == {NL, SP}

Range(s) == {s[k] : k \in 1..Len(s)}

\* ------------------------------------------------------------ strings

RECURSIVE lstrip(_)
lstrip(t) ==
    IF t # <<>> /\ Head(t) \in Whitespace THEN lstrip(Tail(t)) ELSE t

RECURSIVE rstrip(_)
rstrip(t) ==
    IF t # <<>> /\ t[Len(t)] \in Whitespace
    THEN rstrip(SubSeq(t, 1, Len(t) - 1))
    ELSE t

\* str.strip()
strip(t) == rstrip(lstrip(t))

\* str.split(sep): the pieces between the separators, at least one piece.
RECURSIVE split(_, _)
split(t, sep) ==
    IF \A k \in 1..Len(t) : t[k] # sep
    THEN <<t>>
    ELSE LET k == CHOOSE k \in 1..Len(t) :
                      t[k] = sep /\ \A j \in 1..(k - 1) : t[j] # sep
         IN  <<SubSeq(t, 1, k - 1)>> \o split(SubSeq(t, k + 1, Len(t)), sep)

\* sep.join(parts)
RECURSIVE join(_, _)
join(sep, parts) ==
    IF parts = <<>> THEN <<>>
    ELSE IF Len(parts) = 1 THEN parts[1]
    ELSE parts[1] \o sep \o join(sep, Tail(parts))

\* ------------------------------------------------------- exceptions

\* The subclasses of requests.exceptions.RequestException that requests.get
\* and raise_for_status raise.
RequestException == {"ConnectionError", "HTTPError"}

\* Every class derived from Exception that the modelled calls raise.
Exception ==
    RequestException \cup
        {"ParserRejectedMarkup", "AttributeError", "APIError", "TypeError",
         "OSError", "CalledProcessError", "FileNotFoundError"}

Returned(v) == [raised |-> "", ret |-> v]
Raised(e, v) == [raised |-> e, ret |-> v]

\* ------------------------------------------------------ fetch stage

UrlOf(i) == "https://news.example/" \o ToString(i)
TitleOf(i) == <<"headline " \o ToString(i)>>

\* The i-th record of the news API's `articles` array.
ArticleRef(i) == [title |-> TitleOf(i), url |-> UrlOf(i)]

\* What the news API call can do: answer n articles, answer a JSON object
\* without `articles`, fail in transport, answer a non-2xx status, or answer
\* a JSON body that is no object (.get is no attribute of a list).
FetchOutcomes ==
    {[kind |-> "ok", articles |-> [i \in 1..n |-> ArticleRef(i)]] :
        n \in 0..(IF MaxArticles < PageSize THEN MaxArticles ELSE PageSize)}
    \cup {[kind |-> k, articles |-> <<>>] :
            k \in {"no_articles_key", "ConnectionError", "HTTPError",
                   "AttributeError"}}

fetch_top_articles_narrow(o) ==
    IF o.kind \in {"ok", "no_articles_key"} THEN Returned(o.articles)
    ELSE IF o.kind = "ConnectionError" THEN Returned(<<>>)
    ELSE Raised(o.kind, <<>>)

fetch_top_articles(o) ==
    IF o.kind \in {"ok", "no_articles_key"} THEN Returned(o.articles)
    ELSE IF o.kind \in RequestException THEN Returned(<<>>)
    ELSE Raised(o.kind, <<>>)

\* ----------------------------------------------------- scrape stage

\* What fetching and parsing a page can do: a page with these <p> texts, a
\* transport error, a non-2xx status, or the parser rejecting the markup.
Pages ==
    {[kind |-> "ok", paragraphs |-> ps] :
        ps \in {<<>>, << <<"para", SP, "one">>, <<"two">> >>}}
    \cup {[kind |-> k, paragraphs |-> <<>>] :
            k \in {"ConnectionError", "HTTPError", "ParserRejectedMarkup"}}

scrape_article_content(page) ==
    IF page.kind = "ok" THEN Returned(join(<<SP>>, page.paragraphs))
    ELSE IF page.kind \in RequestException THEN Returned(<<>>)
    ELSE Raised(page.kind, <<>>)

\* ------------------------------------------------------ model calls

SummaryPlaceholder == <<"Summary unavailable due to an error.">>
TitlePlaceholder == <<"Title unavailable due to an error.">>

Completion(content) == [kind |-> "ok", content |-> content]
Failure(k) == [kind |-> k, content |-> <<>>]

\* A completion call fails by raising in the request (APIError) or in
\* response.choices[0].message['content'], when the response lacks the
\* expected fields or its message is no mapping (TypeError); otherwise the
\* subscript yields the content.
ModelFailures == {Failure("APIError"), Failure("TypeError")}

SummaryResponses ==
    {Completion(<<"summary", NL>>),
     Completion(<<"intro", NL, H2, "Key points", NL, "detail">>)}
    \cup ModelFailures

TitleResponses ==
    {Completion(<<SP, "Title A">>), Completion(<<"Title B", NL>>),
     Failure("APIError")}

summarize_article_narrow(r) ==
    IF r.kind = "ok" THEN Returned(strip(r.content))
    ELSE IF r.kind = "APIError" THEN Returned(SummaryPlaceholder)
    ELSE Raised(r.kind, <<>>)

summarize_article(r) ==
    IF r.kind = "ok" THEN Returned(strip(r.content))
    ELSE IF r.kind \in Exception THEN Returned(SummaryPlaceholder)
    ELSE Raised(r.kind, <<>>)

generate_new_title(r) ==
    IF r.kind = "ok" THEN Returned(strip(r.content))
    ELSE IF r.kind \in Exception THEN Returned(TitlePlaceholder)
    ELSE Raised(r.kind, <<>>)

\* ---------------------------------------------------- process_article

NoArticle ==
    [st |-> "None", original_title |-> <<>>, new_title |-> <<>>,
     url |-> "", summary |-> <<>>]
Pending == [NoArticle EXCEPT !.st = "pending"]
Failed == [NoArticle EXCEPT !.st = "raised"]

Call(fn, r) == [fn |-> fn, outcome |-> r.kind]

\* One worker's run of process_article: the result (a dict, None, or the
\* exception that left it), the text scraped and the model calls made.
process_article_unguarded(article, page, sumResp, titleResp) ==
    LET full_text == scrape_article_content(page)
        summary == summarize_article(sumResp)
        title == generate_new_title(titleResp)
    IN  IF full_text.raised # ""
        THEN [result |-> Failed, full_text |-> <<>>, calls |-> <<>>]
        ELSE IF summary.raised # ""
        THEN [result |-> Failed, full_text |-> full_text.ret,
              calls |-> <<Call("summarize_article", sumResp)>>]
        ELSE IF title.raised # ""
        THEN [result |-> Failed, full_text |-> full_text.ret,
              calls |-> <<Call("summarize_article", sumResp),
                          Call("generate_new_title", titleResp)>>]
        ELSE [result |-> [st |-> "dict",
                          original_title |-> article.title,
                          new_title |-> title.ret,
                          url |-> article.url,
                          summary |-> summary.ret],
              full_text |-> full_text.ret,
              calls |-> <<Call("summarize_article", sumResp),
                          Call("generate_new_title", titleResp)>>]

process_article(article, page, sumResp, titleResp) ==
    LET full_text == scrape_article_content(page)
        summary == summarize_article(sumResp)
        title == generate_new_title(titleResp)
    IN  IF full_text.raised # ""
        THEN [result |-> Failed, full_text |-> <<>>, calls |-> <<>>]
        ELSE IF full_text.ret = <<>>
        THEN [result |-> NoArticle, full_text |-> <<>>, calls |-> <<>>]
        ELSE IF summary.raised # ""
        THEN [result |-> Failed, full_text |-> full_text.ret,
              calls |-> <<Call("summarize_article", sumResp)>>]
        ELSE IF title.raised # ""
        THEN [result |-> Failed, full_text |-> full_text.ret,
              calls |-> <<Call("summarize_article", sumResp),
                          Call("generate_new_title", titleResp)>>]
        ELSE [result |-> [st |-> "dict",
                          original_title |-> article.title,
                          new_title |-> title.ret,
                          url |-> article.url,
                          summary |-> summary.ret],
              full_text |-> full_text.ret,
              calls |-> <<Call("summarize_article", sumResp),
                          Call("generate_new_title", titleResp)>>]

\* -------------------------------------------- filter_relevant_articles

\* list(executor.map(process_article, articles)): the results in the order
\* of the submitted articles, whatever the order the workers finished in.
executor_map_as_completed(res, order) == [k \in 1..Len(order) |-> res[order[k]]]

executor_map(res, order) == [k \in 1..Len(order) |-> res[k]]

\* [article for article in processed_articles if article is not None]
summarized_articles(processed) == SelectSeq(processed, LAMBDA a : a.st # "None")

\* The text listing every summarized article that is sent to the model.
combined_summaries(summarized) ==
    join(<<NL, NL>>,
         [k \in 1..Len(summarized) |->
            <<"Title: ">> \o summarized[k].new_title \o <<NL, "Summary: ">>
                \o summarized[k].summary])

\* The non-blank lines of the model's answer, each stripped.
relevant_titles_of(content) ==
    LET lines == split(strip(content), NL)
    IN  SelectSeq([k \in 1..Len(lines) |-> strip(lines[k])],
                  LAMBDA t : t # <<>>)

\* The part of filter_relevant_articles after the pool: the relevance call
\* and the selection of the articles whose new title is a line of the answer.
select_relevant(summarized, resp) ==
    IF resp.kind = "ok"
    THEN Returned(SelectSeq(summarized,
             LAMBDA a : a.new_title \in Range(relevant_titles_of(resp.content))))
    ELSE IF resp.kind \in Exception THEN Returned(<<>>)
    ELSE Raised(resp.kind, <<>>)

\* The titles the prompt lists, in its order: the model sees only the prompt.
prompt_titles(prompt) ==
    LET lines == SelectSeq(split(prompt, NL),
                           LAMBDA l : l # <<>> /\ Head(l) = "Title: ")
    IN  [k \in 1..Len(lines) |-> Tail(lines[k])]

\* The lines a relevance answer is made of: a title of the prompt, padded
\* with blanks, or a line that is no title.
AnswerLines(prompt) ==
    {<<SP>> \o t \o <<SP>> : t \in Range(prompt_titles(prompt))}
    \cup {<<"1. none of these">>}

SeqsUpTo(S, n) == UNION {[1..k -> S] : k \in 0..n}

\* What the relevance call can answer: up to MaxLines lines, or every title
\* of the prompt in the prompt's order between blank lines, or a failure.
RelevanceResponses(prompt) ==
    {Completion(join(<<NL>>, ls)) : ls \in SeqsUpTo(AnswerLines(prompt), MaxLines)}
    \cup {Completion(<<NL>> \o join(<<NL, SP, NL>>, prompt_titles(prompt)) \o <<NL>>)}
    \cup ModelFailures

\* ---------------------------------------------------- create_blog_post

DaysSeq == <<1, 2>>
Days == Range(DaysSeq)

\* datetime.now(timezone.utc).strftime('%Y-%m-%d') on day d of the month.
strftime(d) == "2024-05-0" \o ToString(d)

PostFile(today) == "_posts/" \o today \o "-cybersecurity-news.md"
PostFiles == {PostFile(strftime(d)) : d \in Days}

front_matter(today) ==
    <<"---", NL>>
    \o <<"title: Cybersecurity News for ", today, NL>>
    \o <<"date: ", today, NL>>
    \o <<"---", NL, NL>>

section(article) ==
    <<H2>> \o article.new_title \o <<NL>>
    \o <<"[Read more](", article.url, ")", NL, NL>>
    \o article.summary \o <<NL, NL>>

RECURSIVE sections(_)
sections(summaries) ==
    IF summaries = <<>> THEN <<>>
    ELSE section(Head(summaries)) \o sections(Tail(summaries))

\* The file create_blog_post leaves: named by the day, front matter, then
\* one block per article; nothing when open() raises (caught and logged).
\* A write that raises after a successful open is not modelled.
create_blog_post(d, summaries, io) ==
    LET today == strftime(d)
    IN  [filename |-> PostFile(today),
         written |-> io = "ok",
         content |-> front_matter(today) \o sections(summaries)]

\* ------------------------------------------------------ push_to_github

Absent == [exists |-> FALSE, content |-> <<>>]
File(content) == [exists |-> TRUE, content |-> content]

RECURSIVE porcelain_modified_only(_, _, _)
porcelain_modified_only(paths, tree, head) ==
    IF paths = <<>> THEN <<>>
    ELSE LET f == Head(paths)
             line == IF tree[f] # head[f] /\ head[f].exists
                     THEN <<"M  ", f, NL>>
                     ELSE <<>>
         IN  line \o porcelain_modified_only(Tail(paths), tree, head)

\* stdout of `git status --porcelain` after `git add .`: one line per path
\* of the working tree that differs from HEAD.
RECURSIVE porcelain(_, _, _)
porcelain(paths, tree, head) ==
    IF paths = <<>> THEN <<>>
    ELSE LET f == Head(paths)
             line == IF tree[f] = head[f] THEN <<>>
                     ELSE IF head[f].exists THEN <<"M  ", f, NL>>
                     ELSE <<"A  ", f, NL>>
         IN  line \o porcelain(Tail(paths), tree, head)

Paths == [k \in 1..Len(DaysSeq) |-> PostFile(strftime(DaysSeq[k]))]

Cmd(argv, rc, stdout) == [cmd |-> argv, rc |-> rc, stdout |-> stdout]

GitOutcomes == [chdir : {0, 1}, add : {0, 1}, status : {0, 1}, commit : {0, 1},
                push : {0, 1}]

\* push_to_github: the commands run, with their exit codes, and the
\* repository they leave.  ext gives the exit code of each step.
push_to_github_unchecked(tree, head, remote, ext) ==
    LET out == IF ext.status = 0 THEN porcelain(Paths, tree, head) ELSE <<>>
        add == Cmd("git add .", ext.add, <<>>)
        status == Cmd("git status --porcelain", ext.status, out)
        commit == Cmd("git commit", ext.commit, <<>>)
        push == Cmd("git push origin main", ext.push, <<>>)
        committed == IF ext.commit = 0 THEN tree ELSE head
    IN  IF ext.chdir # 0
        THEN [raised |-> "FileNotFoundError", log |-> <<>>, head |-> head,
              remote |-> remote]
        ELSE IF ext.add # 0
        THEN [raised |-> "", log |-> <<add>>, head |-> head, remote |-> remote]
        ELSE IF strip(out) = <<>>
        THEN [raised |-> "", log |-> <<add, status>>, head |-> head,
              remote |-> remote]
        ELSE [raised |-> "", log |-> <<add, status, commit, push>>,
              head |-> committed,
              remote |-> IF ext.push = 0 THEN committed ELSE remote]

push_to_github(tree, head, remote, ext) ==
    LET out == IF ext.status = 0 THEN porcelain(Paths, tree, head) ELSE <<>>
        add == Cmd("git add .", ext.add, <<>>)
        status == Cmd("git status --porcelain", ext.status, out)
        commit == Cmd("git commit", ext.commit, <<>>)
        push == Cmd("git push origin main", ext.push, <<>>)
    IN  IF ext.chdir # 0
        THEN [raised |-> "FileNotFoundError", log |-> <<>>, head |-> head,
              remote |-> remote]
        ELSE IF ext.add # 0
        THEN [raised |-> "", log |-> <<add>>, head |-> head, remote |-> remote]
        ELSE IF strip(out) = <<>>
        THEN [raised |-> "", log |-> <<add, status>>, head |-> head,
              remote |-> remote]
        ELSE IF ext.commit # 0
        THEN [raised |-> "", log |-> <<add, status, commit>>, head |-> head,
              remote |-> remote]
        ELSE [raised |-> "", log |-> <<add, status, commit, push>>,
              head |-> tree,
              remote |-> IF ext.push = 0 THEN tree ELSE remote]

\* --------------------------------------------------------------- state

VARIABLES
    pc,         \* where __main__ is: fetch, map, select, publish, push, done,
                \* crashed
    fetched,    \* what the news API call did
    articles,   \* fetch_top_articles' return value
    results,    \* the pool's futures, by position of the submitted article
    trace,      \* per future: the page met and the model calls made
    completed,  \* the positions in the order the workers finished
    scraped,    \* per article, the text scrape_article_content returned
    processed,  \* processed_articles, the joined results
    prompted,   \* the urls of the articles listed in the relevance prompt
    order,      \* whether the workers finished out of the submitted order,
                \* and whether the relevance answer named two kept titles in
                \* the opposite of the order they are kept in
    relevant,   \* filter_relevant_articles' return value
    post,       \* create_blog_post's call: the day, the list, whether it wrote
    tree,       \* the content repository's working tree
    head,       \* its last commit
    remote,     \* origin/main
    gitLog,     \* the git commands push_to_github ran
    uncaught    \* the exception that ended the process, and where it left

vars == <<pc, fetched, articles, results, trace, completed, scraped, processed,
          prompted, order, relevant, post, tree, head, remote, gitLog, uncaught>>

NoTrace == [page |-> "", paragraphs |-> 0, calls |-> <<>>]
NoPost == [called |-> FALSE, day |-> 0, written |-> FALSE, summaries |-> <<>>]
NoException == [fn |-> "", exc |-> ""]
InOrder == [workers |-> FALSE, answer |-> FALSE]

\* The content repository before the run: no post yet, or the first day's
\* post already committed and pushed with no article in it.
Repositories ==
    {[f \in PostFiles |-> Absent],
     [f \in PostFiles |->
        IF f = PostFile(strftime(DaysSeq[1]))
        THEN File(front_matter(strftime(DaysSeq[1])))
        ELSE Absent]}

Init ==
    /\ pc = "fetch"
    /\ fetched = ""
    /\ articles = <<>>
    /\ results = <<>>
    /\ trace = <<>>
    /\ completed = <<>>
    /\ scraped = <<>>
    /\ processed = <<>>
    /\ prompted = <<>>
    /\ order = InOrder
    /\ relevant = <<>>
    /\ post = NoPost
    /\ head \in Repositories
    /\ tree = head
    /\ remote = head
    /\ gitLog = <<>>
    /\ uncaught = NoException

\* articles = fetch_top_articles(), then filter_relevant_articles submits
\* every article to the pool.
Fetch ==
    /\ pc = "fetch"
    /\ \E o \in FetchOutcomes :
         LET r == fetch_top_articles(o)
         IN  /\ fetched' = o.kind
             /\ IF r.raised # ""
                THEN /\ pc' = "crashed"
                     /\ uncaught' = [fn |-> "fetch_top_articles", exc |-> r.raised]
                     /\ UNCHANGED <<articles, results, trace, scraped>>
                ELSE /\ pc' = "map"
                     /\ articles' = r.ret
                     /\ results' = [i \in 1..Len(r.ret) |-> Pending]
                     /\ trace' = [i \in 1..Len(r.ret) |-> NoTrace]
                     /\ scraped' = [i \in 1..Len(r.ret) |-> <<>>]
                     /\ UNCHANGED uncaught
    /\ UNCHANGED <<completed, processed, prompted, order, relevant, post, tree,
                   head, remote, gitLog>>

\* The model answers only the calls that are made: the answers to draw for
\* call fn, given the calls a worker makes.
Unasked == Completion(<<>>)
Answers(fn, calls, pool) ==
    IF \E k \in 1..Len(calls) : calls[k].fn = fn THEN pool ELSE {Unasked}

\* A pool worker runs process_article on the article at position i.
ProcessArticle(i) ==
    /\ pc = "map"
    /\ results[i].st = "pending"
    /\ \E page \in Pages :
         LET asked == process_article(articles[i], page, Unasked, Unasked).calls
         IN  \E sumResp \in Answers("summarize_article", asked, SummaryResponses),
                titleResp \in Answers("generate_new_title", asked, TitleResponses) :
               LET r == process_article(articles[i], page, sumResp, titleResp)
               IN  /\ results' = [results EXCEPT ![i] = r.result]
                   /\ scraped' = [scraped EXCEPT ![i] = r.full_text]
                   /\ trace' = [trace EXCEPT ![i] =
                                   [page |-> page.kind,
                                    paragraphs |-> Len(page.paragraphs),
                                    calls |-> r.calls]]
    /\ completed' = Append(completed, i)
    /\ UNCHANGED <<pc, fetched, articles, processed, prompted, order, relevant,
                   post, tree, head, remote, gitLog, uncaught>>

\* list(executor.map(...)) meets a future that holds an exception, the
\* earlier ones being done: it leaves filter_relevant_articles, whose try
\* starts after the pool, and ends the process.
PoolRaises ==
    /\ pc = "map"
    /\ \E i \in 1..Len(results) :
         /\ results[i].st = "raised"
         /\ \A j \in 1..(i - 1) : results[j].st \in {"dict", "None"}
    /\ pc' = "crashed"
    /\ uncaught' = [fn |-> "filter_relevant_articles", exc |-> "from the pool"]
    /\ UNCHANGED <<fetched, articles, results, trace, completed, scraped,
                   processed, prompted, order, relevant, post, tree, head,
                   remote, gitLog>>

\* Every worker is done and none raised: the pool is left with the results
\* joined into processed_articles, and its futures are dropped.
Join ==
    /\ pc = "map"
    /\ \A i \in 1..Len(results) : results[i].st \in {"dict", "None"}
    /\ processed' = executor_map(results, completed)
    /\ order' = [order EXCEPT !.workers =
                    \E k \in 1..Len(completed) : completed[k] # k]
    /\ results' = <<>>
    /\ trace' = <<>>
    /\ completed' = <<>>
    /\ pc' = "select"
    /\ UNCHANGED <<fetched, articles, scraped, prompted, relevant, post, tree,
                   head, remote, gitLog, uncaught>>

\* Whether the answer names two of the kept articles' titles in the
\* opposite of the order the articles are kept in.
AnswerReorders(kept, content) ==
    LET ts == relevant_titles_of(content)
        first(t) == CHOOSE k \in 1..Len(ts) :
                        ts[k] = t /\ \A j \in 1..(k - 1) : ts[j] # t
    IN  \E a, b \in 1..Len(kept) :
            /\ a < b
            /\ kept[a].new_title # kept[b].new_title
            /\ first(kept[b].new_title) < first(kept[a].new_title)

\* The rest of filter_relevant_articles: the None results are dropped, the
\* relevance call is made and the articles it names are returned.
Select ==
    /\ pc = "select"
    /\ LET summarized == summarized_articles(processed)
           prompt == combined_summaries(summarized)
       IN  /\ prompted' = [k \in 1..Len(summarized) |-> summarized[k].url]
           /\ \E resp \in RelevanceResponses(prompt) :
                LET r == select_relevant(summarized, resp)
                IN  /\ relevant' = r.ret
                    /\ order' = [order EXCEPT !.answer =
                                    resp.kind = "ok"
                                    /\ AnswerReorders(r.ret, resp.content)]
                    /\ IF r.raised # ""
                       THEN /\ pc' = "crashed"
                            /\ uncaught' = [fn |-> "filter_relevant_articles",
                                            exc |-> r.raised]
                       ELSE /\ pc' = "publish"
                            /\ UNCHANGED uncaught
    /\ processed' = <<>>
    /\ UNCHANGED <<fetched, articles, results, trace, completed, scraped, post,
                   tree, head, remote, gitLog>>

\* create_blog_post(relevant_articles), on day d, the file system doing io.
CreateBlogPost ==
    /\ pc = "publish"
    /\ \E d \in Days, io \in {"ok", "OSError"} :
         LET r == create_blog_post(d, relevant, io)
         IN  /\ tree' = IF r.written
                        THEN [tree EXCEPT ![r.filename] = File(r.content)]
                        ELSE tree
             /\ post' = [called |-> TRUE, day |-> d, written |-> r.written,
                         summaries |-> relevant]
    /\ pc' = "push"
    /\ UNCHANGED <<fetched, articles, results, trace, completed, scraped,
                   processed, prompted, order, relevant, head, remote, gitLog,
                   uncaught>>

\* push_to_github(), git answering ext.
PushToGithub ==
    /\ pc = "push"
    /\ \E ext \in GitOutcomes :
         LET r == push_to_github(tree, head, remote, ext)
         IN  /\ gitLog' = r.log
             /\ head' = r.head
             /\ remote' = r.remote
             /\ IF r.raised # ""
                THEN /\ pc' = "crashed"
                     /\ uncaught' = [fn |-> "push_to_github", exc |-> r.raised]
                ELSE /\ pc' = "done"
                     /\ UNCHANGED uncaught
    /\ UNCHANGED <<fetched, articles, results, trace, completed, scraped,
                   processed, prompted, order, relevant, post, tree>>

Next ==
    \/ Fetch
    \/ \E i \in 1..Len(results) : ProcessArticle(i)
    \/ PoolRaises
    \/ Join
    \/ Select
    \/ CreateBlogPost
    \/ PushToGithub

Spec == Init /\ [][Next]_vars

\* The pipeline from the point where the pool has been left with more
\* results than the relevance prompt asks the model to select: the news API
\* answered TopN + 1 articles (its page size allows PageSize), every page
\* had text, every summary call answered, and each title call answered one
\* of two titles.
GoodPage == [kind |-> "ok", paragraphs |-> << <<"para", SP, "one">>, <<"two">> >>]
GoodSummary == Completion(<<"summary", NL>>)
GoodTitles == {Completion(<<SP, "Title A">>), Completion(<<"Title B", NL>>)}

InitCap ==
    /\ TopN + 1 <= PageSize
    /\ pc = "select"
    /\ fetched = "ok"
    /\ articles = [i \in 1..(TopN + 1) |-> ArticleRef(i)]
    /\ results = <<>>
    /\ trace = <<>>
    /\ completed = <<>>
    /\ scraped = [i \in 1..(TopN + 1) |->
                    process_article(ArticleRef(i), GoodPage, GoodSummary,
                                    GoodSummary).full_text]
    /\ \E titles \in [1..(TopN + 1) -> GoodTitles] :
         processed = [i \in 1..(TopN + 1) |->
                        process_article(ArticleRef(i), GoodPage, GoodSummary,
                                        titles[i]).result]
    /\ prompted = <<>>
    /\ order = InOrder
    /\ relevant = <<>>
    /\ post = NoPost
    /\ head \in Repositories
    /\ tree = head
    /\ remote = head
    /\ gitLog = <<>>
    /\ uncaught = NoException

NextCap ==
    \/ Select
    \/ CreateBlogPost
    \/ PushToGithub

SpecCap == InitCap /\ [][NextCap]_vars

\* ---------------------------------------------------------- properties

\* Reading a written post back.
PostContent == tree[PostFile(strftime(post.day))].content
PostLines == split(PostContent, NL)
IsHeading(l) == l # <<>> /\ Head(l) = H2
IsLink(l) == Len(l) >= 2 /\ Head(l) = "[Read more]("
HeadingAt == SelectSeq([k \in 1..Len(PostLines) |-> k],
                       LAMBDA k : IsHeading(PostLines[k]))
\* The text of the k-th '##' section: from its heading line to the line
\* before the next heading.
SectionText(k) ==
    LET last == IF k < Len(HeadingAt) THEN HeadingAt[k + 1] - 1
                ELSE Len(PostLines)
    IN  strip(join(<<NL>>, SubSeq(PostLines, HeadingAt[k], last)))
DateLines == SelectSeq(PostLines, LAMBDA l : l # <<>> /\ Head(l) = "date: ")
LinkLines == SelectSeq(PostLines, IsLink)
LinkUrls == [k \in 1..Len(LinkLines) |-> LinkLines[k][2]]

Cmds == [k \in 1..Len(gitLog) |-> gitLog[k].cmd]
Ran(argv) == \E k \in 1..Len(gitLog) : gitLog[k].cmd = argv

\* The position in the fetched list of the article with url u.
Pos(u) == CHOOSE i \in 1..Len(articles) : articles[i].url = u
InFetchOrder(urls) ==
    \A a, b \in 1..Len(urls) : a < b => Pos(urls[a]) < Pos(urls[b])
Urls(list) == [k \in 1..Len(list) |-> list[k].url]

\* C1: filter_relevant_articles returns at most 8 (TopN) articles, whatever
\* the fetched list and the model's answer.
C1_AtMostTopN == Len(relevant) <= TopN

\* C2 as stated, in a run that wrote the file: when the relevance step yields
\* no article, push_to_github runs neither git commit nor git push.
C2_NoCommitWithoutArticles ==
    (pc = "done" /\ post.written /\ post.summaries = <<>>)
        => (~Ran("git commit") /\ ~Ran("git push origin main"))

\* C2 amended: when the relevance step yields no article, the file that
\* create_blog_post writes holds the front matter of the day and nothing
\* else; push_to_github then commits exactly when git add succeeded and git
\* status printed a change, pushes exactly when that commit succeeded, and a
\* run in which add and status succeeded and no commit was attempted leaves
\* a working tree equal to the last commit.
C2_CommitsIffStatusShowsChanges ==
    (pc = "done" /\ post.called /\ post.summaries = <<>>)
        => /\ post.written => PostContent = front_matter(strftime(post.day))
           /\ Ran("git commit")
                <=> (Len(gitLog) >= 2 /\ gitLog[1].rc = 0
                     /\ strip(gitLog[2].stdout) # <<>>)
           /\ Ran("git push origin main")
                <=> (Len(gitLog) >= 3 /\ gitLog[3].rc = 0)
           /\ (Len(gitLog) = 2 /\ gitLog[1].rc = 0 /\ gitLog[2].rc = 0)
                => tree = head

C2_Witness ==
    /\ pc = "done"
    /\ post.written
    /\ post.summaries = <<>>
    /\ Len(gitLog) = 2
    /\ gitLog[2].rc = 0

\* C3: no failure before the publish step ends the process: a run that
\* ends on an uncaught exception has called create_blog_post.
C3_ReachesPublish == pc = "crashed" => post.called

\* C4: the written document has the day as its front matter date and
\* exactly one '##' section per input article, in input order, each holding
\* the article's title, link and summary.
C4_OneSectionPerArticle ==
    post.written =>
        /\ DateLines = << <<"date: ", strftime(post.day)>> >>
        /\ Len(HeadingAt) = Len(post.summaries)
        /\ \A k \in 1..Len(HeadingAt) :
               k <= Len(post.summaries)
                   => SectionText(k) = strip(section(post.summaries[k]))

\* C5: when the news search request fails in transport or with a non-2xx
\* status, fetch_top_articles returns the empty list and raises nothing.
C5_FetchFailureReturnsEmpty ==
    fetched \in {"ConnectionError", "HTTPError"}
        => /\ articles = <<>>
           /\ uncaught.fn # "fetch_top_articles"
           /\ pc # "fetch"

C5_Witness == fetched = "HTTPError" /\ pc = "publish"

\* The calls of summarize_article that failed, for the future at position i.
SummarizeFailed(i) ==
    \E k \in 1..Len(trace[i].calls) :
        /\ trace[i].calls[k].fn = "summarize_article"
        /\ trace[i].calls[k].outcome \in {"APIError", "TypeError"}

\* C6: when the model call fails, by raising or by a response without the
\* expected fields, summarize_article returns the placeholder and raises
\* nothing: the worker goes on to build the article with that summary.
C6_SummaryPlaceholderOnFailure ==
    \A i \in 1..Len(trace) :
        SummarizeFailed(i)
            => /\ results[i].st = "dict"
               /\ results[i].summary = SummaryPlaceholder

C6_Witness ==
    \E i \in 1..Len(trace) :
        /\ SummarizeFailed(i)
        /\ trace[i].calls[1].outcome = "TypeError"
        /\ results[i].st = "dict"

\* C7: scrape_article_content returns the empty string and raises nothing
\* when the page request fails, when parsing fails, or when the page has no
\* <p> element.
C7_ScrapeFailureReturnsEmpty ==
    \A i \in 1..Len(trace) :
        (\/ trace[i].page \in {"ConnectionError", "HTTPError", "ParserRejectedMarkup"}
         \/ (trace[i].page = "ok" /\ trace[i].paragraphs = 0))
            => /\ results[i].st = "None"
               /\ scraped[i] = <<>>

\* C8: whatever order the workers finish in, the joined results are in the
\* order of the fetched list, and so are the articles that
\* filter_relevant_articles returns and the sections of the post, whatever
\* the order of the titles in the model's answer.
C8_FetchOrderPreserved ==
    /\ pc = "select"
         => /\ Len(processed) = Len(articles)
            /\ \A k \in 1..Len(processed) :
                   processed[k].st = "dict" => processed[k].url = articles[k].url
    /\ InFetchOrder(Urls(relevant))
    /\ InFetchOrder(Urls(post.summaries))
    /\ post.written => (LinkUrls = Urls(post.summaries) /\ InFetchOrder(LinkUrls))

C8_Witness ==
    /\ post.written
    /\ Len(post.summaries) >= 2
    /\ order.workers
    /\ order.answer

\* C9: push_to_github runs add, status, commit, push in that order; commit
\* only after add succeeded and status printed a change, push only after
\* the commit succeeded; a failed add or commit is the last command run.
C9_GitCommandOrder ==
    /\ \E n \in 0..4 :
         Cmds = SubSeq(<<"git add .", "git status --porcelain", "git commit",
                         "git push origin main">>, 1, n)
    /\ Ran("git status --porcelain") => gitLog[1].rc = 0
    /\ Ran("git commit") => (gitLog[1].rc = 0 /\ strip(gitLog[2].stdout) # <<>>)
    /\ Ran("git push origin main") => gitLog[3].rc = 0
    /\ \A k \in 1..Len(gitLog) :
         (gitLog[k].cmd \in {"git add .", "git commit"} /\ gitLog[k].rc # 0)
             => k = Len(gitLog)

C9_Witness ==
    /\ pc = "done"
    /\ Len(gitLog) = 3
    /\ gitLog[3].rc # 0
    /\ head # tree

\* C10: an article whose scrape returned the empty string gets no summarize
\* or title call, is not listed in the relevance prompt, is not returned and
\* is not in the post.
C10_EmptyScrapeDropped ==
    /\ \A i \in 1..Len(trace) :
         (results[i].st # "pending" /\ scraped[i] = <<>>)
             => (trace[i].calls = <<>> /\ results[i].st # "dict")
    /\ \A i \in 1..Len(articles) :
         scraped[i] = <<>>
             => /\ articles[i].url \notin Range(Urls(processed))
                /\ articles[i].url \notin Range(prompted)
                /\ articles[i].url \notin Range(Urls(relevant))
                /\ articles[i].url \notin Range(Urls(post.summaries))
                /\ post.written => articles[i].url \notin Range(LinkUrls)

C10_Witness ==
    /\ post.written
    /\ Len(post.summaries) >= 1
    /\ \E i \in 1..Len(articles) : scraped[i] = <<>>

=============================================================================
